---- MODULE Spec2Model ----
(***************************************************************************)
(* A model of the Graph container of src/lib/data/graph/Graph.cpp.         *)
(*                                                                         *)
(* The graph owns two insertion-ordered vectors, m_nodes and m_edges.      *)
(* Objects are named by their address (ptr); a token also carries an id.   *)
(* Nodes and edges made by this graph get a fresh address and a fresh id   *)
(* from one counter; plain copies get a fresh address and keep the id of   *)
(* the object they copy.  Objects owned by another graph ("foreign") form  *)
(* a fixed pool with addresses above ForeignBase.                          *)
(*                                                                         *)
(* Node, Edge and utility::split are used by Graph.cpp but are not part of *)
(* the sources at hand; they are modelled from the specification (the      *)
(* incidence index of a node, the registration of an edge with its two     *)
(* end nodes, the path splitting).                                         *)
(***************************************************************************)
EXTENDS Integers, Sequences, FiniteSets, TLC

\* ------------------------------------------------------------------ bounds

\* operations a client issues in one behaviour
MaxOps == 3

\* ------------------------------------------------------- program constants

NULL == 0

NODE_UNDEFINED == "NODE_UNDEFINED"
NodeTypes == {NODE_UNDEFINED, "NODE_CLASS", "NODE_FUNCTION"}

EDGE_MEMBER == "EDGE_MEMBER"
EdgeTypes == {EDGE_MEMBER, "EDGE_CALL"}

\* Graph::DELIMITER, a string of two characters
DELIMITER == <<":", ":">>

\* a node without a TokenComponentSignature
NoSignature == "none"
Signatures == {"sigA", "sigB"}

\* ------------------------------------------------------------------ inputs

\* full names handed to the creation operations, as character strings
NameA == <<"a">>
NameAB == <<"a", ":", ":", "b">>
NameABC == <<"a", ":", ":", "b", ":", ":", "c">>
FullNames == {NameA, NameABC}

\* objects owned by another graph: two nodes, a member edge and a call edge
ForeignBase == 100
ForeignNodes ==
    { [ptr |-> ForeignBase + 1, id |-> ForeignBase + 1, name |-> NameA,
       type |-> "NODE_CLASS", sig |-> NoSignature, origin |-> "foreign"],
      [ptr |-> ForeignBase + 2, id |-> ForeignBase + 2, name |-> NameAB,
       type |-> "NODE_FUNCTION", sig |-> NoSignature, origin |-> "foreign"] }
ForeignEdgeSeq ==
    << [ptr |-> ForeignBase + 3, id |-> ForeignBase + 3, type |-> EDGE_MEMBER,
        from |-> ForeignBase + 1, to |-> ForeignBase + 2],
       [ptr |-> ForeignBase + 4, id |-> ForeignBase + 4, type |-> "EDGE_CALL",
        from |-> ForeignBase + 1, to |-> ForeignBase + 2] >>
ForeignEdges == {ForeignEdgeSeq[i] : i \in DOMAIN ForeignEdgeSeq}
ForeignNodePtrs == {n.ptr : n \in ForeignNodes}
ForeignEdgePtrs == {e.ptr : e \in ForeignEdges}
ForeignNode(p) == CHOOSE n \in ForeignNodes : n.ptr = p
ForeignEdge(p) == CHOOSE e \in ForeignEdges : e.ptr = p

\* ------------------------------------------------------------------- state

VARIABLES
    m_nodes,    \* Graph::m_nodes, the owned nodes in insertion order
    m_edges,    \* Graph::m_edges, the owned edges in insertion order
    nextId,     \* the next fresh token id (and address)
    crashed,    \* the process was ended by undefined behaviour or a stack overflow
    undefined,  \* some operation so far had undefined behaviour
    ops,        \* the number of operations the client may still issue
    last        \* the last operation: its name, arguments, result and outcome

vars == <<m_nodes, m_edges, nextId, crashed, undefined, ops, last>>

\* the graph as a value the operations transform
Here == [nodes |-> m_nodes, edges |-> m_edges, next |-> nextId, ub |-> FALSE, diverged |-> FALSE]

\* ----------------------------------------------------------------- helpers

Range(s) == {s[i] : i \in DOMAIN s}
NodePtrs(G) == {n.ptr : n \in Range(G.nodes)}
EdgePtrs(G) == {e.ptr : e \in Range(G.edges)}

\* position of the first element of s with address p, 0 when there is none
PosOf(s, p) ==
    IF \E i \in DOMAIN s : s[i].ptr = p
    THEN CHOOSE i \in DOMAIN s : s[i].ptr = p /\ \A j \in 1..(i - 1) : s[j].ptr # p
    ELSE 0

\* vector::erase at position i
EraseAt(s, i) == [j \in 1..(Len(s) - 1) |-> IF j < i THEN s[j] ELSE s[j + 1]]

NodeOf(G, p) == G.nodes[PosOf(G.nodes, p)]
EdgeOf(G, p) == IF p \in ForeignEdgePtrs THEN ForeignEdge(p) ELSE G.edges[PosOf(G.edges, p)]

\* a node address that may be dereferenced: a node of this graph or of another
Live(G, p) == p \in NodePtrs(G) \/ p \in ForeignNodePtrs

\* ------------------------------------------------- Node, Edge, utility::split

\* utility::split(str, DELIMITER): the pieces between the occurrences of the
\* delimiter, found from the left; always at least one piece
RECURSIVE SplitFrom(_, _, _)
SplitFrom(str, i, piece) ==
    IF i > Len(str) THEN <<piece>>
    ELSE IF i + 1 <= Len(str) /\ str[i] = DELIMITER[1] /\ str[i + 1] = DELIMITER[2]
         THEN <<piece>> \o SplitFrom(str, i + 2, <<>>)
         ELSE SplitFrom(str, i + 1, Append(piece, str[i]))
Split(str) == SplitFrom(str, 1, <<>>)

IsIncident(e, p) == e.from = p \/ e.to = p

\* Node::getEdges(): the node's incidence index, the edges registered with it
\* in the order of their construction.  An edge registers with its two end
\* nodes when it is constructed and deregisters when it is destroyed.
Incidence(G, p) ==
    SelectSeq(ForeignEdgeSeq, LAMBDA e : IsIncident(e, p))
        \o SelectSeq(G.edges, LAMBDA e : IsIncident(e, p))

\* Node::findEdgeOfType(type, [to](e) { e->getTo() == to }) over an index
FindEdgeOfTypeTo(inc, type, to) ==
    LET hits == {i \in DOMAIN inc : inc[i].type = type /\ inc[i].to = to}
    IN  IF hits = {} THEN NULL
        ELSE inc[CHOOSE i \in hits : \A j \in hits : i <= j].ptr

\* Node::getParentNode(): the source of the node's incoming membership edge
getParentNode(G, node) ==
    LET inc == Incidence(G, node)
        e == FindEdgeOfTypeTo(inc, EDGE_MEMBER, node)
    IN  IF e = NULL THEN NULL ELSE EdgeOf(G, e).from

\* --------------------------------------------------------------- lookups

\* Graph::findNode: the first node of m_nodes the predicate accepts, hits
\* being the positions it accepts
findNode(G, hits) ==
    IF hits = {} THEN NULL
    ELSE G.nodes[CHOOSE i \in hits : \A j \in hits : i <= j].ptr

\* Graph::findEdge, likewise over m_edges
findEdge(G, hits) ==
    IF hits = {} THEN NULL
    ELSE G.edges[CHOOSE i \in hits : \A j \in hits : i <= j].ptr

\* mutant: the lookup compares with the last piece of the name only
getNodeByLastPiece(G, fullName) ==
    findNode(G, {i \in DOMAIN G.nodes :
                    G.nodes[i].name = Split(fullName)[Len(Split(fullName))]})

getNode(G, fullName) == findNode(G, {i \in DOMAIN G.nodes : G.nodes[i].name = fullName})
getNodeById(G, id) == findNode(G, {i \in DOMAIN G.nodes : G.nodes[i].id = id})
\* mutant: an edge is looked up by its address instead of its id
getEdgeByAddress(G, id) == findEdge(G, {i \in DOMAIN G.edges : G.edges[i].ptr = id})
getEdgeById(G, id) == findEdge(G, {i \in DOMAIN G.edges : G.edges[i].id = id})
getEdge(G, type, from, to) == FindEdgeOfTypeTo(Incidence(G, from), type, to)

\* Graph::findToken: the first node the predicate accepts, else the first edge
findToken(G, nodeHits, edgeHits) ==
    IF findNode(G, nodeHits) # NULL THEN findNode(G, nodeHits)
    ELSE findEdge(G, edgeHits)

getTokenById(G, id) ==
    findToken(G, {i \in DOMAIN G.nodes : G.nodes[i].id = id},
                 {i \in DOMAIN G.edges : G.edges[i].id = id})

\* -------------------------------------------------------------- creation

\* the result of an operation: the graph after it and the address it returns
Result(G, ret) == [g |-> G, ret |-> ret]

\* Graph::insertEdge: the Edge constructor registers the new edge with from
\* and to, which dereferences both
insertEdge(G, type, from, to) ==
    LET e == [ptr |-> G.next, id |-> G.next, type |-> type, from |-> from, to |-> to]
    IN  Result([G EXCEPT !.edges = Append(@, e), !.next = @ + 1,
                         !.ub = @ \/ ~Live(G, from) \/ ~Live(G, to)],
               e.ptr)

\* Graph::createEdge: the edge getEdge finds in from's index, else a new one
createEdge(G, type, from, to) ==
    LET edge == getEdge(G, type, from, to)
        G1 == [G EXCEPT !.ub = @ \/ ~Live(G, from)]
    IN  IF edge # NULL THEN Result(G1, edge)
        ELSE insertEdge(G1, type, from, to)

\* mutant: the new node is stored without the edge from its parent
insertNodeWithoutEdge(G, type, fullName, parentNode) ==
    LET n == [ptr |-> G.next, id |-> G.next, name |-> fullName, type |-> type,
              sig |-> NoSignature, origin |-> "hierarchy"]
    IN  Result([G EXCEPT !.nodes = Append(@, n), !.next = @ + 1], n.ptr)

\* Graph::insertNode: a new node at the end of m_nodes and, under a parent,
\* the membership edge from the parent
insertNode(G, type, fullName, parentNode) ==
    LET n == [ptr |-> G.next, id |-> G.next, name |-> fullName, type |-> type,
              sig |-> NoSignature, origin |-> "hierarchy"]
        G1 == [G EXCEPT !.nodes = Append(@, n), !.next = @ + 1]
    IN  IF parentNode # NULL
        THEN Result(createEdge(G1, EDGE_MEMBER, parentNode, n.ptr).g, n.ptr)
        ELSE Result(G1, n.ptr)

\* the loop of Graph::insertNodeHierarchy from index i on (i counts from 1):
\* name is the prefix accumulated so far, node the node of the previous level
RECURSIVE insertLevels(_, _, _, _, _, _)

\* mutant: every level is made with the requested type
insertLevelsOfOneType(G, type, names, i, name, node) ==
    IF i > Len(names) THEN Result(G, node)
    ELSE LET name1 == (IF i > 1 THEN name \o DELIMITER ELSE name) \o names[i]
             found == getNode(G, name1)
             made == insertNode(G, type, name1, node)
         IN  IF found # NULL
             THEN insertLevels(G, type, names, i + 1, name1, found)
             ELSE insertLevels(made.g, type, names, i + 1, name1, made.ret)

insertLevels(G, type, names, i, name, node) ==
    IF i > Len(names) THEN Result(G, node)
    ELSE LET name1 == (IF i > 1 THEN name \o DELIMITER ELSE name) \o names[i]
             found == getNode(G, name1)
             made == IF i = Len(names)
                     THEN insertNode(G, type, name1, node)
                     ELSE insertNode(G, NODE_UNDEFINED, name1, node)
         IN  IF found # NULL
             THEN insertLevels(G, type, names, i + 1, name1, found)
             ELSE insertLevels(made.g, type, names, i + 1, name1, made.ret)

\* Graph::insertNodeHierarchy
insertNodeHierarchy(G, type, fullName) ==
    insertLevels(G, type, Split(fullName), 1, <<>>, NULL)

\* Node::setType
setType(G, node, type) ==
    [G EXCEPT !.nodes[PosOf(G.nodes, node)].type = type]

\* Node::addComponentSignature; origin records the creation path of the node
addComponentSignature(G, node, signature) ==
    [G EXCEPT !.nodes[PosOf(G.nodes, node)].sig = signature,
              !.nodes[PosOf(G.nodes, node)].origin = "signature"]

\* Graph::createNodeHierarchy(type, fullName)
createNodeHierarchy(G, type, fullName) ==
    LET node == getNode(G, fullName)
    IN  IF node # NULL
        THEN Result(IF type # NODE_UNDEFINED THEN setType(G, node, type) ELSE G, node)
        ELSE insertNodeHierarchy(G, type, fullName)

\* mutant: the new node of a name that exists is made without a parent
createSiblingWithoutParent(G, type, fullName, signature, garbage) ==
    LET node == getNode(G, fullName)
        missing == node # NULL /\ NodeOf(G, node).sig = NoSignature
        same == IF missing THEN garbage ELSE NodeOf(G, node).sig = signature
        G1 == [G EXCEPT !.ub = @ \/ missing]
        made == IF node # NULL
                THEN insertNode(G1, type, fullName, NULL)
                ELSE insertNodeHierarchy(G1, type, fullName)
    IN  IF node # NULL /\ same
        THEN Result(IF type # NODE_UNDEFINED THEN setType(G1, node, type) ELSE G1, node)
        ELSE Result(addComponentSignature(made.g, made.ret, signature), made.ret)

\* Graph::createNodeHierarchyWithDistinctSignature(type, fullName, signature).
\* A node found without a signature component makes getComponent return null
\* and the comparison read through it: undefined behaviour, whose result, when
\* the process survives it, is the input garbage.
createNodeHierarchyWithDistinctSignature(G, type, fullName, signature, garbage) ==
    LET node == getNode(G, fullName)
        missing == node # NULL /\ NodeOf(G, node).sig = NoSignature
        same == IF missing THEN garbage ELSE NodeOf(G, node).sig = signature
        G1 == [G EXCEPT !.ub = @ \/ missing]
        made == IF node # NULL
                THEN insertNode(G1, type, fullName, getParentNode(G1, node))
                ELSE insertNodeHierarchy(G1, type, fullName)
    IN  IF node # NULL /\ same
        THEN Result(IF type # NODE_UNDEFINED THEN setType(G1, node, type) ELSE G1, node)
        ELSE Result(addComponentSignature(made.g, made.ret, signature), made.ret)

\* ------------------------------------------------------------ plain copies

\* the node behind an address handed to the graph
SourceNode(G, p) == IF p \in ForeignNodePtrs THEN ForeignNode(p) ELSE NodeOf(G, p)

\* Graph::addNodeAsPlainCopy: the node of this id, else a copy of the
\* attributes at a new address
addNodeAsPlainCopy(G, node) ==
    LET src == SourceNode(G, node)
        n == getNodeById(G, src.id)
        copy == [src EXCEPT !.ptr = G.next, !.origin = "copy"]
    IN  IF n # NULL THEN Result(G, n)
        ELSE Result([G EXCEPT !.nodes = Append(@, copy), !.next = @ + 1], copy.ptr)

\* mutant: the copy of the edge keeps the end nodes of its source
addEdgeKeepingSourceEnds(G, edge) ==
    LET src == EdgeOf(G, edge)
        e == getEdgeById(G, src.id)
        copy == [src EXCEPT !.ptr = G.next]
    IN  IF e # NULL THEN Result(G, e)
        ELSE Result([G EXCEPT !.edges = Append(@, copy), !.next = @ + 1], copy.ptr)

\* Graph::addEdgeAsPlainCopy: the edge of this id, else copies of the two end
\* nodes and an edge of the same id and type between them
addEdgeAsPlainCopy(G, edge) ==
    LET src == EdgeOf(G, edge)
        e == getEdgeById(G, src.id)
        from == addNodeAsPlainCopy(G, src.from)
        to == addNodeAsPlainCopy(from.g, src.to)
        copy == [ptr |-> to.g.next, id |-> src.id, type |-> src.type,
                 from |-> from.ret, to |-> to.ret]
    IN  IF e # NULL THEN Result(G, e)
        ELSE Result([to.g EXCEPT !.edges = Append(@, copy), !.next = @ + 1], copy.ptr)

\* ----------------------------------------------------------------- removal

\* mutant: only the edges that leave the node are removed
removeOutgoingEdges(G, node) ==
    [G EXCEPT !.edges = SelectSeq(@, LAMBDA e : e.from # node)]

\* Graph::removeEdgeInternal for every edge of the node's index (the second
\* forEachEdge of removeNode): each edge leaves m_edges and is destroyed, and
\* its destructor deregisters it from both end nodes, dereferencing them
removeIncidentEdges(G, node) ==
    [G EXCEPT !.edges = SelectSeq(@, LAMBDA e : ~IsIncident(e, node)),
              !.ub = @ \/ \E e \in Range(G.edges) :
                          IsIncident(e, node) /\ (~Live(G, e.from) \/ ~Live(G, e.to))]

\* m_nodes.erase(it) at the end of removeNode, it being the position found
\* before the children were removed.  An erase before that position moved the
\* node down and invalidated it: the vector then erases whatever stands at the
\* old position, and past its end either its last element (beyond = "pop") or
\* nothing (beyond = "none").
eraseNodeAt(G, node, pos, beyond) ==
    LET len == Len(G.nodes)
        stale == pos > len \/ G.nodes[pos].ptr # node
    IN  IF ~stale THEN [G EXCEPT !.nodes = EraseAt(@, pos)]
        ELSE IF pos <= len THEN [G EXCEPT !.nodes = EraseAt(@, pos), !.ub = TRUE]
        ELSE IF beyond = "pop" /\ len > 0
             THEN [G EXCEPT !.nodes = EraseAt(@, len), !.ub = TRUE]
             ELSE [G EXCEPT !.ub = TRUE]

\* Graph::removeNode.  stack holds the nodes whose removal is in progress: a
\* call for one of them that still finds it in m_nodes recurses without end.
RECURSIVE removeNode(_, _, _, _)
RECURSIVE removeChildren(_, _, _, _, _, _)

\* mutant: a node that is not found is only warned about
removeNodeAfterWarning(G, node, stack, beyond) ==
    LET pos == PosOf(G.nodes, node)
        members == SelectSeq(Incidence(G, node), LAMBDA e : e.type = EDGE_MEMBER)
        G1 == removeChildren(G, node, members, 1, stack \cup {node}, beyond)
        G2 == removeIncidentEdges(G1, node)
    IN  IF node \in stack THEN [G EXCEPT !.diverged = TRUE]
        ELSE IF G1.diverged THEN G1
        ELSE IF pos = 0 THEN G2
        ELSE eraseNodeAt(G2, node, pos, beyond)

removeNode(G, node, stack, beyond) ==
    LET pos == PosOf(G.nodes, node)
        members == SelectSeq(Incidence(G, node), LAMBDA e : e.type = EDGE_MEMBER)
        G1 == removeChildren(G, node, members, 1, stack \cup {node}, beyond)
        G2 == removeIncidentEdges(G1, node)
    IN  IF pos = 0 THEN G
        ELSE IF node \in stack THEN [G EXCEPT !.diverged = TRUE]
        ELSE IF G1.diverged THEN G1
        ELSE eraseNodeAt(G2, node, pos, beyond)

\* the first forEachEdgeOfType of removeNode, from the i-th membership edge
\* of the node's index on: the child of every outgoing one is removed.  An
\* edge destroyed by an earlier removal is read after its destruction.
removeChildren(G, node, members, i, stack, beyond) ==
    IF i > Len(members) THEN G
    ELSE LET e == members[i]
             G1 == removeNode(G, e.to, stack, beyond)
         IN  IF e.ptr \notin EdgePtrs(G) \cup ForeignEdgePtrs
             THEN removeChildren([G EXCEPT !.ub = TRUE], node, members, i + 1, stack, beyond)
             ELSE IF node # e.from
             THEN removeChildren(G, node, members, i + 1, stack, beyond)
             ELSE IF G1.diverged THEN G1
             ELSE removeChildren(G1, node, members, i + 1, stack, beyond)

\* mutant: the membership type is not rejected
removeEdgeOfAnyType(G, edge, beyond) ==
    LET pos == PosOf(G.edges, edge)
        e == EdgeOf(G, edge)
        len == Len(G.edges)
    IN  IF pos = 0
        THEN IF beyond = "pop" /\ len > 0
             THEN [G EXCEPT !.edges = EraseAt(@, len), !.ub = TRUE]
             ELSE [G EXCEPT !.ub = TRUE]
        ELSE [G EXCEPT !.edges = EraseAt(@, pos),
                       !.ub = @ \/ ~Live(G, e.from) \/ ~Live(G, e.to)]

\* Graph::removeEdge.  An edge that is not found is only warned about: a
\* membership edge returns next, any other reaches m_edges.erase(end()), which
\* drops the last edge (beyond = "pop") or nothing (beyond = "none").
removeEdge(G, edge, beyond) ==
    LET pos == PosOf(G.edges, edge)
        e == EdgeOf(G, edge)
        len == Len(G.edges)
    IN  IF e.type = EDGE_MEMBER THEN G
        ELSE IF pos = 0
        THEN IF beyond = "pop" /\ len > 0
             THEN [G EXCEPT !.edges = EraseAt(@, len), !.ub = TRUE]
             ELSE [G EXCEPT !.ub = TRUE]
        ELSE [G EXCEPT !.edges = EraseAt(@, pos),
                       !.ub = @ \/ ~Live(G, e.from) \/ ~Live(G, e.to)]

\* ----------------------------------------------------------------- actions

Beyond == {"pop", "none"}

\* addresses a caller may hand in: objects of this graph and of the other
NodeArgs == NodePtrs(Here) \cup ForeignNodePtrs
EdgeArgs == EdgePtrs(Here) \cup ForeignEdgePtrs

Init ==
    /\ m_nodes = <<>>
    /\ m_edges = <<>>
    /\ nextId = 1
    /\ crashed = FALSE
    /\ undefined = FALSE
    /\ ops = MaxOps
    /\ last = [op |-> "none", args |-> <<>>, ret |-> NULL, ub |-> FALSE, again |-> FALSE]

\* what makes two calls of an operation the same request: the full name for
\* createNodeHierarchy, all arguments otherwise
Key(op, args) == IF op = "createNodeHierarchy" THEN <<args[2]>> ELSE args

\* the step of an operation that ends with graph G and returns ret.  After
\* undefined behaviour the process may also have ended instead; a recursion
\* without end always ends it.  again: the call repeats the previous request.
Step(op, args, G, ret) ==
    /\ ~crashed
    /\ ops > 0
    /\ ops' = ops - 1
    /\ undefined' = (undefined \/ G.ub \/ G.diverged)
    /\ last' = [op |-> op, args |-> args, ret |-> ret, ub |-> G.ub \/ G.diverged,
                again |-> op = last.op /\ Key(op, args) = Key(last.op, last.args)]
    /\ \E end \in {G.diverged} \cup {b \in {TRUE} : G.ub} :
          /\ crashed' = end
          /\ m_nodes' = IF end THEN m_nodes ELSE G.nodes
          /\ m_edges' = IF end THEN m_edges ELSE G.edges
          /\ nextId' = IF end THEN nextId ELSE G.next

CreateNodeHierarchy ==
    \E type \in NodeTypes, fullName \in FullNames :
        LET r == createNodeHierarchy(Here, type, fullName)
        IN  Step("createNodeHierarchy", <<type, fullName>>, r.g, r.ret)

CreateNodeHierarchyWithDistinctSignature ==
    \E type \in NodeTypes, fullName \in FullNames, signature \in Signatures,
       garbage \in BOOLEAN :
        LET r == createNodeHierarchyWithDistinctSignature(Here, type, fullName,
                                                          signature, garbage)
        IN  Step("createNodeHierarchyWithDistinctSignature",
                 <<type, fullName, signature>>, r.g, r.ret)

\* the source may be any node the caller holds, the target is a node of this graph
CreateEdge ==
    \E type \in EdgeTypes, from \in NodeArgs, to \in NodePtrs(Here) :
        LET r == createEdge(Here, type, from, to)
        IN  Step("createEdge", <<type, from, to>>, r.g, r.ret)

RemoveNode ==
    \E node \in NodeArgs, beyond \in Beyond :
        Step("removeNode", <<node>>, removeNode(Here, node, {}, beyond), NULL)

RemoveEdge ==
    \E edge \in EdgeArgs, beyond \in Beyond :
        Step("removeEdge", <<edge>>, removeEdge(Here, edge, beyond), NULL)

AddNodeAsPlainCopy ==
    \E node \in NodeArgs :
        LET r == addNodeAsPlainCopy(Here, node)
        IN  Step("addNodeAsPlainCopy", <<node>>, r.g, r.ret)

AddEdgeAsPlainCopy ==
    \E edge \in EdgeArgs :
        LET r == addEdgeAsPlainCopy(Here, edge)
        IN  Step("addEdgeAsPlainCopy", <<edge>>, r.g, r.ret)

Next ==
    \/ CreateNodeHierarchy
    \/ CreateNodeHierarchyWithDistinctSignature
    \/ CreateEdge
    \/ RemoveNode
    \/ RemoveEdge
    \/ AddNodeAsPlainCopy
    \/ AddEdgeAsPlainCopy

Spec == Init /\ [][Next]_vars

\* ---- only createNodeHierarchyWithDistinctSignature

NextSignature == CreateNodeHierarchyWithDistinctSignature

SpecSignature == Init /\ [][NextSignature]_vars

\* ---- a client that builds hierarchies, relates nodes of the graph by edges
\* ---- of other types than membership, and removes what it made

NonMemberTypes == EdgeTypes \ {EDGE_MEMBER}

ForestCreateEdge ==
    \E type \in NonMemberTypes, from \in NodePtrs(Here), to \in NodePtrs(Here) :
        LET r == createEdge(Here, type, from, to)
        IN  Step("createEdge", <<type, from, to>>, r.g, r.ret)

ForestRemoveEdge ==
    \E edge \in {e.ptr : e \in {x \in Range(m_edges) : x.type \in NonMemberTypes}},
       beyond \in Beyond :
        Step("removeEdge", <<edge>>, removeEdge(Here, edge, beyond), NULL)

ForestRemoveNode ==
    \E node \in NodePtrs(Here), beyond \in Beyond :
        Step("removeNode", <<node>>, removeNode(Here, node, {}, beyond), NULL)

NextForest ==
    \/ CreateNodeHierarchy
    \/ CreateNodeHierarchyWithDistinctSignature
    \/ ForestCreateEdge
    \/ ForestRemoveEdge
    \/ ForestRemoveNode

SpecForest == Init /\ [][NextForest]_vars

\* ---- a client that imports nodes and edges of another graph, makes a
\* ---- hierarchy of its own beside them and removes nodes of the graph

MaxImportOps == 4
NameBC == <<"b", ":", ":", "c">>

InitImport ==
    /\ m_nodes = <<>>
    /\ m_edges = <<>>
    /\ nextId = 1
    /\ crashed = FALSE
    /\ undefined = FALSE
    /\ ops = MaxImportOps
    /\ last = [op |-> "none", args |-> <<>>, ret |-> NULL, ub |-> FALSE, again |-> FALSE]

ImportCreateNodeHierarchy ==
    \E type \in NodeTypes :
        LET r == createNodeHierarchy(Here, type, NameBC)
        IN  Step("createNodeHierarchy", <<type, NameBC>>, r.g, r.ret)

NextImport ==
    \/ AddNodeAsPlainCopy
    \/ AddEdgeAsPlainCopy
    \/ ImportCreateNodeHierarchy
    \/ ForestRemoveNode

SpecImport == InitImport /\ [][NextImport]_vars

\* ------------------------------------------------------------------ claims

Triple(e) == <<e.type, e.from, e.to>>

\* no change of the graph in this step
GraphUnchanged == m_nodes' = m_nodes /\ m_edges' = m_edges /\ nextId' = nextId

\* a node's identity and attributes other than its type
Structure(nodes) ==
    [i \in DOMAIN nodes |->
        [ptr |-> nodes[i].ptr, id |-> nodes[i].id, name |-> nodes[i].name,
         sig |-> nodes[i].sig]]

\* the nodes reached from the nodes of S along membership edges, S included
RECURSIVE MemberClosure(_, _)
MemberClosure(S, edges) ==
    LET T == S \cup {e.to : e \in {x \in Range(edges) : x.type = EDGE_MEMBER /\ x.from \in S}}
    IN  IF T = S THEN S ELSE MemberClosure(T, edges)

\* the first i pieces of a split name, joined by the delimiter
RECURSIVE JoinPrefix(_, _)
JoinPrefix(pieces, i) ==
    IF i = 1 THEN pieces[1] ELSE JoinPrefix(pieces, i - 1) \o DELIMITER \o pieces[i]

\* C1: the edge collection never holds two distinct edges with the same
\* (type, from, to) triple.
C1_NoTwoEdgesShareTriple ==
    \A i, j \in DOMAIN m_edges : i # j => Triple(m_edges[i]) # Triple(m_edges[j])

\* C2: two distinct nodes share a full name only if both were produced by
\* createNodeHierarchyWithDistinctSignature (no undefined behaviour having
\* occurred before).
C2_NameSharedOnlyBySignaturePath ==
    ~undefined =>
        \A i, j \in DOMAIN m_nodes :
            (i # j /\ m_nodes[i].name = m_nodes[j].name)
                => (m_nodes[i].origin = "signature" /\ m_nodes[j].origin = "signature")

\* C3: after any sequence of createNodeHierarchyWithDistinctSignature calls no
\* two distinct nodes have the same full name and the same signature (no
\* undefined behaviour having occurred before).
C3_NoTwoNodesShareNameAndSignature ==
    ~undefined =>
        \A i, j \in DOMAIN m_nodes :
            (i # j /\ m_nodes[i].name = m_nodes[j].name /\ m_nodes[i].sig # NoSignature)
                => m_nodes[i].sig # m_nodes[j].sig

C5_EveryEdgeEndsInGraph ==
    \A i \in DOMAIN m_edges :
        m_edges[i].from \in NodePtrs(Here) /\ m_edges[i].to \in NodePtrs(Here)

\* C6: createNodeHierarchy(type, fullName) on an empty graph, fullName having
\* k pieces, makes k nodes, one per prefix in order, the proper prefixes with
\* the undefined type and the leaf with the requested type, and k-1 membership
\* edges, the i-th from the i-th node to the next; it returns the leaf.
C6_HierarchyOnEmptyGraph ==
    [][ (last'.op = "createNodeHierarchy" /\ m_nodes = <<>> /\ m_edges = <<>>)
        => LET pieces == Split(last'.args[2])
               k == Len(pieces)
           IN  /\ ~crashed'
               /\ Len(m_nodes') = k
               /\ \A i \in 1..k :
                     /\ m_nodes'[i].name = JoinPrefix(pieces, i)
                     /\ m_nodes'[i].type = IF i < k THEN NODE_UNDEFINED ELSE last'.args[1]
               /\ \A i, j \in 1..k : i # j => m_nodes'[i].ptr # m_nodes'[j].ptr
               /\ Len(m_edges') = k - 1
               /\ \A i \in 1..(k - 1) :
                     Triple(m_edges'[i]) = <<EDGE_MEMBER, m_nodes'[i].ptr, m_nodes'[i + 1].ptr>>
               /\ last'.ret = m_nodes'[k].ptr ]_vars

\* C6 witness: "a::b::c" was created on the empty graph: 3 nodes, 2 edges.
C6_Witness ==
    /\ last.op = "createNodeHierarchy"
    /\ last.args[2] = NameABC
    /\ ops = MaxOps - 1
    /\ Len(m_nodes) = 3
    /\ Len(m_edges) = 2

\* C7: a createNodeHierarchy issued right after a createNodeHierarchy with the
\* same full name returns the same node and leaves the node collection
\* (members, ids, order) and the edge collection as they were.
C7_CreateNodeHierarchyIdempotent ==
    [][ (last'.op = "createNodeHierarchy" /\ last'.again)
        => /\ ~crashed'
           /\ last'.ret = last.ret
           /\ Structure(m_nodes') = Structure(m_nodes)
           /\ m_edges' = m_edges
           /\ nextId' = nextId ]_vars

\* C7 witness: a hierarchy of three levels was requested a second time.
C7_Witness ==
    /\ last.op = "createNodeHierarchy"
    /\ last.again
    /\ last.args[2] = NameABC
    /\ last.ret \in NodePtrs(Here)

\* C8: removeEdge of a membership edge changes nothing: nodes, edges and ids
\* stay, and an edge that was in the graph is still in it.
C8_RemoveMemberEdgeChangesNothing ==
    [][ (last'.op = "removeEdge" /\ EdgeOf(Here, last'.args[1]).type = EDGE_MEMBER)
        => /\ ~crashed' /\ ~last'.ub
           /\ GraphUnchanged
           /\ last'.args[1] \in EdgePtrs(Here)
                 => \E i \in DOMAIN m_edges' : m_edges'[i].ptr = last'.args[1] ]_vars

\* C8 witness: removeEdge was called with a membership edge of the graph.
C8_Witness ==
    /\ last.op = "removeEdge"
    /\ last.args[1] \in EdgePtrs(Here)
    /\ EdgeOf(Here, last.args[1]).type = EDGE_MEMBER

\* C9: removeEdge of an edge that is not in the edge collection leaves the
\* node collection and the edge collection unchanged.
C9_RemoveAbsentEdgeChangesNothing ==
    [][ (last'.op = "removeEdge" /\ last'.args[1] \notin EdgePtrs(Here))
        => (m_nodes' = m_nodes /\ m_edges' = m_edges) ]_vars

\* C10: removeNode of a node that is not in the node collection stops before
\* any mutation: no node and no edge is removed and no child is visited.
C10_RemoveAbsentNodeChangesNothing ==
    [][ (last'.op = "removeNode" /\ last'.args[1] \notin NodePtrs(Here))
        => (~crashed' /\ ~last'.ub /\ GraphUnchanged) ]_vars

\* C10 witness: removeNode was called with a node that is not in the graph
\* and has an outgoing membership edge to a node that is.
C10_Witness ==
    /\ last.op = "removeNode"
    /\ last.args[1] \notin NodePtrs(Here)
    /\ \E i \in DOMAIN m_edges :
          /\ m_edges[i].type = EDGE_MEMBER
          /\ m_edges[i].from = last.args[1]
          /\ m_edges[i].to \in NodePtrs(Here)

\* the graph after this step
There == [nodes |-> m_nodes', edges |-> m_edges', next |-> nextId', ub |-> FALSE, diverged |-> FALSE]

IsPrefixOf(s, t) == Len(s) <= Len(t) /\ \A i \in DOMAIN s : t[i] = s[i]

\* C11: when the first node named fullName carries a signature other than the
\* given one (in a graph that saw no undefined behaviour),
\* createNodeHierarchyWithDistinctSignature appends one node with a fresh id,
\* that name, the given signature and type, and, when the found node has a
\* parent, one membership edge from that parent to the new node.
C11_DistinctSignatureAddsSibling ==
    [][ (/\ last'.op = "createNodeHierarchyWithDistinctSignature"
         /\ ~undefined
         /\ getNode(Here, last'.args[2]) # NULL
         /\ NodeOf(Here, getNode(Here, last'.args[2])).sig \notin {NoSignature, last'.args[3]})
        => LET node == getNode(Here, last'.args[2])
               parent == getParentNode(Here, node)
               new == m_nodes'[Len(m_nodes')]
           IN  /\ ~crashed' /\ ~last'.ub
               /\ Len(m_nodes') = Len(m_nodes) + 1
               /\ IsPrefixOf(m_nodes, m_nodes')
               /\ new.name = last'.args[2]
               /\ new.sig = last'.args[3]
               /\ new.type = last'.args[1]
               /\ new.ptr = last'.ret
               /\ \A i \in DOMAIN m_nodes : m_nodes[i].id # new.id /\ m_nodes[i].ptr # new.ptr
               /\ \A i \in DOMAIN m_edges : m_edges[i].id # new.id
               /\ getParentNode(There, new.ptr) = parent
               /\ IsPrefixOf(m_edges, m_edges')
               /\ IF parent = NULL THEN m_edges' = m_edges
                  ELSE /\ Len(m_edges') = Len(m_edges) + 1
                       /\ Triple(m_edges'[Len(m_edges')]) = <<EDGE_MEMBER, parent, new.ptr>> ]_vars

\* C11 witness: the call returned a new node beside an older node of the same
\* name, another signature and the same parent.
C11_Witness ==
    /\ last.op = "createNodeHierarchyWithDistinctSignature"
    /\ ~undefined
    /\ \E i, j \in DOMAIN m_nodes :
          /\ i < j
          /\ j = Len(m_nodes)
          /\ m_nodes[j].ptr = last.ret
          /\ m_nodes[i].name = m_nodes[j].name
          /\ m_nodes[i].id # m_nodes[j].id
          /\ m_nodes[i].sig # NoSignature
          /\ m_nodes[j].sig # NoSignature
          /\ m_nodes[i].sig # m_nodes[j].sig
          /\ getParentNode(Here, m_nodes[i].ptr) # NULL
          /\ getParentNode(Here, m_nodes[i].ptr) = getParentNode(Here, m_nodes[j].ptr)

\* C12: no two nodes of the graph share an id and no two edges share an id;
\* addNodeAsPlainCopy / addEdgeAsPlainCopy of an object whose id the graph
\* already holds returns the node / edge of that id and adds nothing.
C12_PlainCopyDedupById ==
    /\ [](/\ \A i, j \in DOMAIN m_nodes : i # j => m_nodes[i].id # m_nodes[j].id
          /\ \A i, j \in DOMAIN m_edges : i # j => m_edges[i].id # m_edges[j].id)
    /\ [][ /\ (/\ last'.op = "addNodeAsPlainCopy"
               /\ \E i \in DOMAIN m_nodes : m_nodes[i].id = SourceNode(Here, last'.args[1]).id)
              => /\ ~crashed' /\ ~last'.ub
                 /\ GraphUnchanged
                 /\ last'.ret \in NodePtrs(Here)
                 /\ NodeOf(Here, last'.ret).id = SourceNode(Here, last'.args[1]).id
           /\ (/\ last'.op = "addEdgeAsPlainCopy"
               /\ \E i \in DOMAIN m_edges : m_edges[i].id = EdgeOf(Here, last'.args[1]).id)
              => /\ ~crashed' /\ ~last'.ub
                 /\ GraphUnchanged
                 /\ last'.ret \in EdgePtrs(Here)
                 /\ EdgeOf(Here, last'.ret).id = EdgeOf(Here, last'.args[1]).id ]_vars

\* C12 witness: an edge of the other graph was imported twice in a row; the
\* graph holds one copy of it and the copies of its two end nodes.
C12_Witness ==
    /\ last.op = "addEdgeAsPlainCopy"
    /\ last.again
    /\ last.args[1] \in ForeignEdgePtrs
    /\ ops = MaxOps - 2
    /\ Len(m_nodes) = 2
    /\ Len(m_edges) = 1
    /\ last.ret = m_edges[1].ptr
    /\ m_edges[1].id = ForeignEdge(last.args[1]).id

NodeIds(nodes) == {nodes[i].id : i \in DOMAIN nodes}

\* C13: addEdgeAsPlainCopy of an edge whose id the graph does not hold appends
\* one edge of that id and type; its from and to are nodes of this graph with
\* the ids of the source's from and to; the only nodes added are copies of
\* those end nodes whose id was absent, and nothing else changes.
C13_AddEdgeAsPlainCopyAddsEdgeAndEnds ==
    [][ (/\ last'.op = "addEdgeAsPlainCopy"
         /\ \A i \in DOMAIN m_edges : m_edges[i].id # EdgeOf(Here, last'.args[1]).id)
        => LET src == EdgeOf(Here, last'.args[1])
               from == SourceNode(Here, src.from)
               to == SourceNode(Here, src.to)
               absent == {from.id, to.id} \ NodeIds(m_nodes)
               new == m_edges'[Len(m_edges')]
               added == {i \in DOMAIN m_nodes' : i > Len(m_nodes)}
           IN  /\ ~crashed' /\ ~last'.ub
               /\ Len(m_edges') = Len(m_edges) + 1
               /\ IsPrefixOf(m_edges, m_edges')
               /\ new.ptr = last'.ret
               /\ new.id = src.id
               /\ new.type = src.type
               /\ new.from \in NodePtrs(There)
               /\ new.to \in NodePtrs(There)
               /\ NodeOf(There, new.from).id = from.id
               /\ NodeOf(There, new.to).id = to.id
               /\ IsPrefixOf(m_nodes, m_nodes')
               /\ Cardinality(added) = Cardinality(absent)
               /\ Cardinality(added) <= 2
               /\ \A i \in added :
                     /\ m_nodes'[i].id \in absent
                     /\ \E n \in {from, to} :
                           /\ n.id = m_nodes'[i].id
                           /\ n.name = m_nodes'[i].name
                           /\ n.type = m_nodes'[i].type ]_vars

\* C13 witness: after one end node was imported alone, the import of an edge
\* added the edge and the other end node only.
C13_Witness ==
    /\ last.op = "addEdgeAsPlainCopy"
    /\ last.args[1] \in ForeignEdgePtrs
    /\ ~last.again
    /\ ops = MaxOps - 2
    /\ nextId = 4
    /\ Len(m_nodes) = 2
    /\ Len(m_edges) = 1
    /\ m_edges[1].ptr = last.ret
    /\ m_edges[1].id = ForeignEdge(last.args[1]).id
    /\ {m_edges[1].from, m_edges[1].to} = NodePtrs(Here)

\* C14: right after createNodeHierarchy or
\* createNodeHierarchyWithDistinctSignature returned node x, getNode(name of x),
\* getNodeById(id of x) and getTokenById(id of x) return x; right after
\* createEdge(type, from, to) returned edge x, getEdge(type, from, to),
\* getEdgeById(id of x) and getTokenById(id of x) return x (stated for calls
\* in runs without undefined behaviour).
C14_CreateThenLookupReturnsSame ==
    [][ /\ (/\ last'.op \in {"createNodeHierarchy", "createNodeHierarchyWithDistinctSignature"}
            /\ ~undefined')
           => /\ last'.ret \in NodePtrs(There)
              /\ getNode(There, NodeOf(There, last'.ret).name) = last'.ret
              /\ getNodeById(There, NodeOf(There, last'.ret).id) = last'.ret
              /\ getTokenById(There, NodeOf(There, last'.ret).id) = last'.ret
        /\ (last'.op = "createEdge" /\ ~undefined')
           => /\ last'.ret \in EdgePtrs(There)
              /\ getEdge(There, last'.args[1], last'.args[2], last'.args[3]) = last'.ret
              /\ getEdgeById(There, EdgeOf(There, last'.ret).id) = last'.ret
              /\ getTokenById(There, EdgeOf(There, last'.ret).id) = last'.ret ]_vars

\* C15: createEdge(type, from, to) on nodes of the graph (from = to included)
\* returns an edge whose type, from and to are the arguments: the stored edge
\* of this triple when there is one, and leaving the graph as it is, else one
\* new edge appended to m_edges.
C15_CreateEdgeReturnsRequestedTriple ==
    [][ (/\ last'.op = "createEdge"
         /\ ~undefined
         /\ last'.args[2] \in NodePtrs(Here)
         /\ last'.args[3] \in NodePtrs(Here))
        => LET stored == {i \in DOMAIN m_edges : Triple(m_edges[i]) = last'.args}
           IN  /\ ~crashed' /\ ~last'.ub
               /\ m_nodes' = m_nodes
               /\ last'.ret \in EdgePtrs(There)
               /\ Triple(EdgeOf(There, last'.ret)) = last'.args
               /\ IF stored # {}
                  THEN m_edges' = m_edges /\ last'.ret \in {m_edges[i].ptr : i \in stored}
                  ELSE /\ Len(m_edges') = Len(m_edges) + 1
                       /\ IsPrefixOf(m_edges, m_edges')
                       /\ m_edges'[Len(m_edges')].ptr = last'.ret ]_vars

C17_RemoveNodeTerminates ==
    [][ (last'.op = "removeNode" /\ last'.args[1] \in NodePtrs(Here))
        => \A beyond \in Beyond : ~removeNode(Here, last'.args[1], {}, beyond).diverged ]_vars

\* C18: a call removeNode(n) that returns, for a node n of a graph that saw no
\* undefined behaviour before, erases n and erases no node that is neither n
\* nor reachable from n over membership edges, wherever the descendants of n
\* stand in m_nodes.
C18_RemoveNodeErasesOnlySubtree ==
    [][ (/\ last'.op = "removeNode"
         /\ last'.args[1] \in NodePtrs(Here)
         /\ ~undefined
         /\ ~crashed')
        => /\ last'.args[1] \notin NodePtrs(There)
           /\ \A p \in NodePtrs(Here) \ MemberClosure({last'.args[1]}, m_edges) :
                 p \in NodePtrs(There) ]_vars

\* C19: whenever createNodeHierarchyWithDistinctSignature finds a node of the
\* requested full name, that node carries a signature, so the comparison at
\* the head of the operation never reads a signature that is missing.
C19_FoundNodeCarriesSignature ==
    [][ (/\ last'.op = "createNodeHierarchyWithDistinctSignature"
         /\ getNode(Here, last'.args[2]) # NULL)
        => NodeOf(Here, getNode(Here, last'.args[2])).sig # NoSignature ]_vars

====
